---- MODULE Spec2Model ----
(***************************************************************************)
(* gphotos-cdp: the traversal-and-synchronization engine of main.go.       *)
(*                                                                         *)
(* The feed is the items 1..NItems, 1 the oldest and NItems the newest.    *)
(* A location (a Go string) is encoded as a number: EmptyStr is "", an     *)
(* item's number is the address of its detail page                         *)
(* (https://photos.google.com/photo/<id>), LandingUrl is                   *)
(* https://photos.google.com/ and TruncUrl is a truncated address (what a  *)
(* short write leaves in .lastdone).                                       *)
(*                                                                         *)
(* A file that may or may not exist is a set: {} when it does not exist,   *)
(* {c} when it exists with content c.                                      *)
(*                                                                         *)
(* The browser is the environment.  A navigation key that was dispatched   *)
(* is applied by the page some time later (pendingKey); the page handles   *)
(* key events in order, so a pending key is applied at the latest when the *)
(* next key event is dispatched.                                           *)
(***************************************************************************)
EXTENDS Integers, Sequences, FiniteSets, TLC

\* ---- bounds of the model
NItems == 4
MaxRuns == 2
MaxN == 2
MaxExtraEvents == 1
MaxSize == 2
MaxLag == 1
MaxScroll == 1
MaxPolls == 7
\* navN's batchSize of the polling variant, 1000 items in the source: the
\* model reloads the page every second item
batchSize == 2

\* ---- program constants (times in milliseconds)
tick == 500
Minute == 60000
Second == 1000
EmptyStr == 0
\* the polling variant's navLeft: first and longest sleep between two polls
initBackoff == 10
maxBackoff == 500

Items == 1..NItems
LandingUrl == NItems + 1
TruncUrl == NItems + 2
\* https://www.google.com/photos/about/ : where the page is while the user
\* has not authenticated
AboutUrl == NItems + 3

\* -n: negative means "get them all"
NFlagChoices == {0 - 1} \cup (1..MaxN)
\* -start: empty, or the address of an item
StartFlagChoices == {EmptyStr} \cup Items

PartName == "photo.jpg.crdownload"
FinalName == "photo.jpg"
OtherName == "other.jpg"

VARIABLES
  \* flags of the current run (-all and -list: the polling variant only)
  run, startFlag, nItemsFlag, runFlag, allFlag, listFlag,
  \* the download directory
  lastdone, bak, staged, itemDirs,
  \* the browser
  cursor, pendingKey, scroll, dlActive, extraEvents,
  \* Session and the locals of firstNav, navToLast, navN, download
  pc, result, sLastDone, firstItem, previousScr, location, prevLocation,
  ready, n,
  started, fileSize, filename,
  \* the listener of listenNavEvents and navLeft
  listenEvents, navWaiting, navDone, gPolling, gSending,
  \* time, for the download watcher: deadline - now, what is left of the
  \* current time.Sleep(tick), and whether the run is timed at all
  timed, left, sleepLeft,
  \* faults of the filesystem, chosen by the environment
  readFails,
  \* history, for the properties only
  startMode, startLoc, dlLog, runMoved, movedEver, prevDone,
  mdOld, mdNew, killedAt, sinceGrow, appearedInWindow, gapOK,
  twoFiles, relocated, overwrites, runLog,
  \* the polling variant's navLeft: its backoff and the sleeps done so far
  backoff, polls

flagVars == <<run, startFlag, nItemsFlag, runFlag, allFlag, listFlag>>
dirVars == <<lastdone, bak, staged, itemDirs>>
browserVars == <<cursor, pendingKey, scroll, dlActive, extraEvents>>
sessVars == <<sLastDone, firstItem, previousScr, location, prevLocation,
              ready, n>>
dlVars == <<started, fileSize, filename>>
navVars == <<listenEvents, navWaiting, navDone, gPolling, gSending>>
timeVars == <<timed, left, sleepLeft>>
histRunVars == <<startMode, startLoc, dlLog, runMoved, movedEver, prevDone>>
histMdVars == <<mdOld, mdNew, killedAt>>
histDlVars == <<sinceGrow, appearedInWindow, gapOK, twoFiles>>
histMvVars == <<relocated, overwrites, runLog>>
pollVars == <<backoff, polls>>

vars == <<flagVars, dirVars, browserVars, pc, result, sessVars, dlVars,
          navVars, timeVars, readFails, histRunVars, histMdVars, histDlVars,
          histMvVars, pollVars>>

\* ---- helpers

Min(a, b) == IF a < b THEN a ELSE b

TheOne(S) == CHOOSE x \in S : TRUE

\* a file of a per-item directory, and the item whose location it was
\* moved for
Relocated(dir, name, item) == [dir |-> dir, name |-> name, item |-> item]

\* getLastDone: "" when .lastdone does not exist, else its content
getLastDone == IF lastdone = {} THEN EmptyStr ELSE TheOne(lastdone)

\* strings.Split(location, "/"): the slash separated parts of an address
Parts(loc) ==
  IF loc \in Items THEN <<"https:", "", "photos.google.com", "photo", loc>>
  ELSE IF loc = LandingUrl THEN <<"https:", "", "photos.google.com", "">>
  ELSE IF loc = TruncUrl THEN <<"https:", "", "photos.goo">>
  ELSE <<"">>

\* strings.HasSuffix(location, s.firstItem)
HasSuffixItem(loc, item) == loc \in Items /\ loc = item

\* mutant of HasSuffixCrdownload: no name is taken for an in-progress one
HasSuffixCrdownload_Never(name) == FALSE

\* strings.HasSuffix(name, ".crdownload")
HasSuffixCrdownload(name) == name = PartName

\* what one navigation key does to the cursor of the detail view
ApplyKey(c, k) ==
  IF c \notin Items THEN c
  ELSE IF k = "ArrowLeft" THEN (IF c < NItems THEN c + 1 ELSE c)
  ELSE IF k = "ArrowRight" THEN (IF c > 1 THEN c - 1 ELSE c)
  ELSE c

\* the cursor once the page has handled the pending key (if any)
AfterPending == ApplyKey(cursor, pendingKey)

\* listenNavEvents' callback on one EventNavigatedWithinDocument: a goroutine
\* is started when listenEvents is set
Spawned(fires) == IF fires /\ listenEvents THEN gPolling + 1 ELSE gPolling

\* ---- the initial state: the first run of main on an empty download dir

\* the values a fresh process and a fresh browser start with
FreshProcess(p, r, sl, fi, ps, lo, pl, rd, nn, st, fs, fn) ==
  /\ p = "NewSession" /\ r = "running"
  /\ sl = EmptyStr /\ fi = EmptyStr /\ ps = {} /\ lo = EmptyStr
  /\ pl = EmptyStr /\ rd = FALSE /\ nn = 0
  /\ st = FALSE /\ fs = 0 /\ fn = ""

FreshBrowser(c, k, sc, da, ee) ==
  /\ c = LandingUrl /\ k = "none" /\ sc = 0 /\ da = FALSE /\ ee = 0

FreshListener(le, nw, nd, gp, gs) ==
  /\ le = FALSE /\ nw = FALSE /\ nd = 0 /\ gp = 0 /\ gs = 0

FreshRunHistory(sm, slc, dl, rm) ==
  /\ sm = "none" /\ slc = EmptyStr /\ dl = <<>> /\ rm = {}

FreshDlHistory(sg, aw, go, tf) ==
  /\ sg = 0 /\ aw = FALSE /\ go = TRUE /\ tf = FALSE

\* -run: whether a program was named (its name is of no consequence)
RunFlagChoices == BOOLEAN

Init ==
  /\ run = 1
  /\ startFlag \in StartFlagChoices
  /\ nItemsFlag \in NFlagChoices
  /\ runFlag \in RunFlagChoices
  /\ allFlag = FALSE /\ listFlag = FALSE
  /\ relocated = {} /\ overwrites = {} /\ runLog = <<>>
  /\ backoff = 0 /\ polls = 0
  /\ lastdone = {} /\ bak = {} /\ staged = {}
  /\ itemDirs = [i \in Items |-> {}]
  /\ FreshBrowser(cursor, pendingKey, scroll, dlActive, extraEvents)
  /\ FreshProcess(pc, result, sLastDone, firstItem, previousScr, location,
                  prevLocation, ready, n, started, fileSize, filename)
  /\ FreshListener(listenEvents, navWaiting, navDone, gPolling, gSending)
  /\ timed = FALSE /\ left = 0 /\ sleepLeft = 0
  /\ readFails = FALSE
  /\ FreshRunHistory(startMode, startLoc, dlLog, runMoved)
  /\ movedEver = {} /\ prevDone = 0
  /\ mdOld = EmptyStr /\ mdNew = EmptyStr /\ killedAt = "none"
  /\ FreshDlHistory(sinceGrow, appearedInWindow, gapOK, twoFiles)

\* a step of main: only pc (and sometimes result) change besides what the
\* step names
Exit(r) == pc' = "exit" /\ result' = r

\* ---- main, up to firstNav

\* NewSession: s.lastDone = getLastDone(dlDir)
NewSession ==
  /\ pc = "NewSession"
  /\ sLastDone' = getLastDone
  /\ pc' = "cleanDlDir"
  /\ UNCHANGED <<pollVars, histMvVars, flagVars, dirVars, browserVars, result, firstItem,
                 previousScr, location, prevLocation, ready, n, dlVars,
                 navVars, timeVars, readFails, histRunVars, histMdVars,
                 histDlVars>>

\* mutant of CleanKeeps: cleanDlDir removes nothing
CleanKeeps_All(name) == TRUE

\* mutant of CleanKeeps: cleanDlDir keeps no regular file
CleanKeeps_None(name) == FALSE

\* the regular files of dlDir that cleanDlDir keeps: only .lastdone
CleanKeeps(name) == name = ".lastdone"

\* cleanDlDir: removes every regular file of dlDir but .lastdone
cleanDlDir ==
  /\ pc = "cleanDlDir"
  /\ lastdone' = IF CleanKeeps(".lastdone") THEN lastdone ELSE {}
  /\ bak' = IF CleanKeeps(".lastdone.bak") THEN bak ELSE {}
  /\ staged' = {f \in staged : CleanKeeps(f.name)}
  /\ pc' = "login"
  /\ UNCHANGED <<pollVars, histMvVars, flagVars, itemDirs, browserVars, result, sessVars, dlVars,
                 navVars, timeVars, readFails, histRunVars, histMdVars,
                 histDlVars>>

\* login: the page ends on https://photos.google.com/ once authenticated
login ==
  /\ pc = "login"
  /\ cursor' = LandingUrl
  /\ pc' = "setFirstItem"
  /\ UNCHANGED <<pollVars, histMvVars, flagVars, dirVars, pendingKey, scroll, dlActive, extraEvents,
                 result, sessVars, dlVars, navVars, timeVars, readFails,
                 histRunVars, histMdVars, histDlVars>>

\* mutant of setFirstItem: the anchor is not read
setFirstItem_Lazy ==
  /\ pc = "setFirstItem"
  /\ pc' = "firstNav"
  /\ UNCHANGED <<pollVars, histMvVars, flagVars, dirVars, browserVars,
                 result, sessVars, dlVars, navVars, timeVars, readFails,
                 histRunVars, histMdVars, histDlVars>>

\* setFirstItem: the href of the first item of the landing view
setFirstItem ==
  /\ pc = "setFirstItem"
  /\ firstItem' = NItems
  /\ pc' = "firstNav"
  /\ UNCHANGED <<pollVars, histMvVars, flagVars, dirVars, browserVars, result, sLastDone,
                 previousScr, location, prevLocation, ready, n, dlVars,
                 navVars, timeVars, readFails, histRunVars, histMdVars,
                 histDlVars>>

\* ---- firstNav

\* firstNav with -start: navigates to it
firstNav_Start ==
  /\ pc = "firstNav"
  /\ startFlag # EmptyStr
  /\ cursor' = startFlag
  /\ pc' = "navN"
  /\ startMode' = "start"
  /\ UNCHANGED <<pollVars, histMvVars, flagVars, dirVars, pendingKey, scroll, dlActive, extraEvents,
                 result, sessVars, dlVars, navVars, timeVars, readFails,
                 startLoc, dlLog, runMoved, movedEver, prevDone, histMdVars,
                 histDlVars>>

\* whether navigating to a location can be answered with status 200: an
\* item's address may (the item may also be gone), a truncated one cannot
CanResolve(loc) == loc \in Items

\* mutant of firstNav_LastDone: the run starts on the item after the
\* sentinel's
firstNav_LastDone_Next ==
  /\ pc = "firstNav"
  /\ startFlag = EmptyStr
  /\ sLastDone # EmptyStr
  /\ CanResolve(sLastDone)
  /\ cursor' = ApplyKey(sLastDone, "ArrowLeft")
  /\ pc' = "navN"
  /\ startMode' = "lastdone"
  /\ UNCHANGED <<pollVars, histMvVars, flagVars, dirVars, pendingKey, scroll,
                 dlActive, extraEvents, result, sessVars, dlVars, navVars,
                 timeVars, readFails, startLoc, dlLog, runMoved, movedEver,
                 prevDone, histMdVars, histDlVars>>

\* firstNav with a sentinel that resolves: navigates to it
firstNav_LastDone ==
  /\ pc = "firstNav"
  /\ startFlag = EmptyStr
  /\ sLastDone # EmptyStr
  /\ CanResolve(sLastDone)
  /\ cursor' = sLastDone
  /\ pc' = "navN"
  /\ startMode' = "lastdone"
  /\ UNCHANGED <<pollVars, histMvVars, flagVars, dirVars, pendingKey, scroll, dlActive, extraEvents,
                 result, sessVars, dlVars, navVars, timeVars, readFails,
                 startLoc, dlLog, runMoved, movedEver, prevDone, histMdVars,
                 histDlVars>>

\* firstNav with a sentinel that does not answer 200: forgets it, removes
\* .lastdone, goes back to the landing page and takes the seek path
firstNav_Gone ==
  /\ pc = "firstNav"
  /\ startFlag = EmptyStr
  /\ sLastDone # EmptyStr
  /\ sLastDone' = EmptyStr
  /\ IF lastdone = {}
       THEN \* os.Remove: IsNotExist, log.Fatal
            /\ Exit("fatal: .lastdone already gone")
            /\ UNCHANGED <<lastdone, cursor, startMode>>
       ELSE /\ lastdone' = {}
            /\ cursor' = LandingUrl
            /\ pc' = "navToEnd"
            /\ startMode' = "gone"
            /\ UNCHANGED result
  /\ UNCHANGED <<pollVars, histMvVars, flagVars, bak, staged, itemDirs, pendingKey, scroll,
                 dlActive, extraEvents, firstItem, previousScr, location,
                 prevLocation, ready, n, dlVars, navVars, timeVars, readFails,
                 startLoc, dlLog, runMoved, movedEver, prevDone, histMdVars,
                 histDlVars>>

\* firstNav with neither: the seek path
firstNav_Seek ==
  /\ pc = "firstNav"
  /\ startFlag = EmptyStr
  /\ sLastDone = EmptyStr
  /\ pc' = "navToEnd"
  /\ startMode' = "seek"
  /\ UNCHANGED <<pollVars, histMvVars, flagVars, dirVars, browserVars, result, sessVars, dlVars,
                 navVars, timeVars, readFails, startLoc, dlLog, runMoved,
                 movedEver, prevDone, histMdVars, histDlVars>>

\* ---- navToEnd: PageDown and End until two consecutive screenshots are
\* identical.  A screenshot shows the scroll position.

\* the page scrolls further down after an End key
BrowserScroll ==
  /\ pc = "navToEnd"
  /\ previousScr # {}
  /\ scroll < MaxScroll
  /\ scroll' = scroll + 1
  /\ UNCHANGED <<pollVars, histMvVars, flagVars, dirVars, cursor, pendingKey, dlActive, extraEvents,
                 pc, result, sessVars, dlVars, navVars, timeVars, readFails,
                 histRunVars, histMdVars, histDlVars>>

\* one iteration of navToEnd's loop
navToEnd ==
  /\ pc = "navToEnd"
  /\ IF previousScr = {} \/ scroll \notin previousScr
       THEN previousScr' = {scroll} /\ pc' = "navToEnd"
       ELSE previousScr' = previousScr /\ pc' = "navToLast"
  /\ UNCHANGED <<pollVars, histMvVars, flagVars, dirVars, browserVars, result, sLastDone, firstItem,
                 location, prevLocation, ready, n, dlVars, navVars, timeVars,
                 readFails, histRunVars, histMdVars, histDlVars>>

\* ---- navToLast

\* The page handles its pending key: on the landing view "\n" opens an
\* item (which one depends on what the view shows), in the detail view an
\* arrow moves the cursor by one item.
PendingTargets ==
  IF pendingKey = "Enter" /\ cursor = LandingUrl THEN Items
  ELSE {AfterPending}

\* an EventNavigatedWithinDocument fires when the cursor goes from one item
\* of the detail view to another
FiresEvent(from, to) == from \in Items /\ to \in Items /\ from # to

BrowserApply ==
  /\ pendingKey # "none"
  /\ pc # "exit"
  /\ \E c \in PendingTargets :
       /\ cursor' = c
       /\ gPolling' = Spawned(FiresEvent(cursor, c))
  /\ pendingKey' = "none"
  /\ UNCHANGED <<pollVars, histMvVars, flagVars, dirVars, scroll, dlActive, extraEvents, pc, result,
                 sessVars, dlVars, listenEvents, navWaiting, navDone, gSending,
                 timeVars, readFails, histRunVars, histMdVars, histDlVars>>

\* the key navToLast's iteration dispatches: ArrowRight, and "\n" before
\* the detail view is known to be open; on the landing view the "\n" is
\* what counts, in the detail view the arrow
navToLastKey(c, rdy) ==
  IF c = LandingUrl /\ ~rdy THEN "Enter" ELSE "ArrowRight"

\* navToLast, first half of an iteration: the key events
navToLast_Key ==
  /\ pc = "navToLast"
  /\ \E c \in PendingTargets :
       /\ cursor' = c
       /\ gPolling' = Spawned(FiresEvent(cursor, c))
       /\ pendingKey' = navToLastKey(c, ready)
  /\ pc' = "navToLast_loc"
  /\ UNCHANGED <<pollVars, histMvVars, flagVars, dirVars, scroll, dlActive, extraEvents, result,
                 sessVars, dlVars, listenEvents, navWaiting, navDone, gSending,
                 timeVars, readFails, histRunVars, histMdVars, histDlVars>>

\* navToLast, second half: chromedp.Location and the comparison
navToLast_Location ==
  /\ pc = "navToLast_loc"
  /\ location' = cursor
  /\ IF ~ready
       THEN /\ ready' = (cursor # LandingUrl)
            /\ pc' = "navToLast"
            /\ UNCHANGED prevLocation
       ELSE /\ UNCHANGED ready
            /\ IF cursor = prevLocation
                 THEN pc' = "navN" /\ UNCHANGED prevLocation
                 ELSE pc' = "navToLast" /\ prevLocation' = cursor
  /\ UNCHANGED <<pollVars, histMvVars, flagVars, dirVars, browserVars, result, sLastDone, firstItem,
                 previousScr, n, dlVars, navVars, timeVars, readFails,
                 histRunVars, histMdVars, histDlVars>>

\* ---- navN

\* mutant of navN_Loop: the loop starts with navLeft
navN_Loop_NavLeft == "navLeft"

\* navN's loop starts with chromedp.Location
navN_Loop == "navN_loc"

\* navN, before its loop: N == 0 returns at once, else listenNavEvents
\* registers the callback and the locals start empty
navN_Start ==
  /\ pc = "navN"
  /\ n' = 0
  /\ location' = EmptyStr /\ prevLocation' = EmptyStr
  /\ IF nItemsFlag = 0 THEN Exit("OK")
     ELSE pc' = navN_Loop /\ UNCHANGED result
  /\ UNCHANGED <<pollVars, histMvVars, flagVars, dirVars, browserVars, sLastDone, firstItem,
                 previousScr, ready, dlVars, navVars, timeVars, readFails,
                 histRunVars, histMdVars, histDlVars>>

\* navN's loop, from chromedp.Location to the call of dlAndMove
navN_Location ==
  /\ pc = "navN_loc"
  /\ location' = cursor
  /\ IF cursor = prevLocation
       THEN Exit("OK") /\ UNCHANGED <<prevLocation, startLoc>>
       ELSE /\ prevLocation' = cursor
            /\ pc' = "startDownload"
            /\ startLoc' = IF startLoc = EmptyStr THEN cursor ELSE startLoc
            /\ UNCHANGED result
  /\ UNCHANGED <<pollVars, histMvVars, flagVars, dirVars, browserVars, sLastDone, firstItem,
                 previousScr, ready, n, dlVars, navVars, timeVars, readFails,
                 startMode, dlLog, runMoved, movedEver, prevDone, histMdVars,
                 histDlVars>>

\* ---- download

\* the staged files download's filter keeps: not .lastdone, not
\* .lastdone.bak (those two are the variables lastdone and bak, never
\* members of staged)
fileEntries == staged

\* ioutil.ReadDir sorts by file name: fileEntries[0] is the first of them
NameOrder == <<OtherName, FinalName, PartName>>
Rank(name) == CHOOSE i \in 1..Len(NameOrder) : NameOrder[i] = name
FirstEntry(S) == CHOOSE f \in S : \A g \in S : Rank(f.name) <= Rank(g.name)

\* mutant of TooMany: two files are let through
TooMany_Over2(k) == k > 2

\* len(fileEntries) < 1 and len(fileEntries) > 1
TooFew(k) == k < 1
TooMany(k) == k > 1

\* time.Now().Add(time.Minute), as the time left to it; a run that is not
\* timed only tells a deadline that has passed (left < 0) from one that has
\* not
Window == IF timed THEN Minute ELSE 0

\* mutant of AfterDeadline: no deadline is ever found passed
AfterDeadline_Never == FALSE

\* time.Now().After(deadline)
AfterDeadline == left < 0

\* mutants of the two deadline tests: each without its test of started
TooLongToStart_IgnoresStarted == AfterDeadline
HitDeadline_IgnoresStarted == AfterDeadline

\* the two deadline tests at the top of download's loop
TooLongToStart == ~started /\ AfterDeadline
HitDeadline == started /\ AfterDeadline
NotAfterDeadline == ~TooLongToStart /\ ~HitDeadline

\* time.Sleep(tick) has returned
Slept == timed => sleepLeft <= 0

\* startDownload (Shift+D) and the locals of download
startDownload ==
  /\ pc = "startDownload"
  /\ cursor' = AfterPending
  /\ gPolling' = Spawned(FiresEvent(cursor, AfterPending))
  /\ pendingKey' = "none"
  /\ dlActive' = TRUE
  /\ started' = FALSE /\ fileSize' = 0 /\ filename' = ""
  /\ left' = Window
  /\ sleepLeft' = IF timed THEN tick ELSE sleepLeft
  /\ FreshDlHistory(sinceGrow', appearedInWindow', gapOK', twoFiles')
  /\ pc' = "dl_poll"
  /\ UNCHANGED <<pollVars, histMvVars, flagVars, dirVars, scroll, extraEvents, result, sessVars,
                 listenEvents, navWaiting, navDone, gSending, timed,
                 readFails, histRunVars, histMdVars>>

\* the deadline after a poll that saw the one file f
NewDeadline(f) ==
  IF ~started \/ f.size > fileSize THEN Window ELSE left

\* what every poll leaves alone
PollFrame ==
  UNCHANGED <<pollVars, histMvVars, flagVars, dirVars, browserVars, sessVars, navVars,
              timed, readFails, histRunVars, histMdVars, sinceGrow,
              appearedInWindow, gapOK, twoFiles>>

\* a poll that goes round the loop again
PollAgain ==
  /\ pc' = "dl_poll" /\ UNCHANGED result
  /\ sleepLeft' = IF timed THEN tick ELSE sleepLeft

\* the loop of download is left: its deadline and its sleep are over
LoopEnds == left' = 0 /\ sleepLeft' = 0

\* a poll that returns an error from download, dlAndMove and navN
PollFails(r) ==
  /\ Exit(r)
  /\ LoopEnds
  /\ UNCHANGED <<started, fileSize, filename>>

dlPoll_TooLong ==
  /\ pc = "dl_poll" /\ Slept
  /\ TooLongToStart
  /\ PollFails("took too long to start")
  /\ PollFrame

dlPoll_HitDeadline ==
  /\ pc = "dl_poll" /\ Slept
  /\ HitDeadline
  /\ PollFails("hit deadline while downloading")
  /\ PollFrame

dlPoll_ReadErr ==
  /\ pc = "dl_poll" /\ Slept
  /\ NotAfterDeadline
  /\ readFails
  /\ PollFails("ReadDir error")
  /\ PollFrame

dlPoll_None ==
  /\ pc = "dl_poll" /\ Slept
  /\ NotAfterDeadline
  /\ ~readFails
  /\ TooFew(Cardinality(fileEntries))
  /\ PollAgain
  /\ UNCHANGED <<started, fileSize, filename, left>>
  /\ PollFrame

\* mutant of dlPoll_MoreThanOne: the first of the files is taken for the
\* download and marked
dlPoll_MoreThanOne_Marks ==
  /\ pc = "dl_poll" /\ Slept
  /\ NotAfterDeadline
  /\ ~readFails
  /\ TooMany(Cardinality(fileEntries))
  /\ started' = TRUE /\ fileSize' = fileSize
  /\ filename' = FirstEntry(fileEntries).name
  /\ LoopEnds
  /\ pc' = "md_rename" /\ UNCHANGED result
  /\ PollFrame

dlPoll_MoreThanOne ==
  /\ pc = "dl_poll" /\ Slept
  /\ NotAfterDeadline
  /\ ~readFails
  /\ ~TooFew(Cardinality(fileEntries))
  /\ TooMany(Cardinality(fileEntries))
  /\ PollFails("more than one file")
  /\ PollFrame

\* the poll finds one file that is still in progress
dlPoll_Progress ==
  /\ pc = "dl_poll" /\ Slept
  /\ NotAfterDeadline
  /\ ~readFails
  /\ ~TooFew(Cardinality(fileEntries))
  /\ ~TooMany(Cardinality(fileEntries))
  /\ LET f == FirstEntry(fileEntries) IN
       /\ HasSuffixCrdownload(f.name)
       /\ started' = TRUE
       /\ left' = NewDeadline(f)
       /\ fileSize' = IF f.size > fileSize THEN f.size ELSE fileSize
  /\ PollAgain
  /\ UNCHANGED filename
  /\ PollFrame

\* the poll finds one file that is complete: download goes on to markDone
dlPoll_Done ==
  /\ pc = "dl_poll" /\ Slept
  /\ NotAfterDeadline
  /\ ~readFails
  /\ ~TooFew(Cardinality(fileEntries))
  /\ ~TooMany(Cardinality(fileEntries))
  /\ LET f == FirstEntry(fileEntries) IN
       /\ ~HasSuffixCrdownload(f.name)
       /\ started' = TRUE
       /\ fileSize' = IF f.size > fileSize THEN f.size ELSE fileSize
       /\ filename' = f.name
  /\ LoopEnds
  /\ pc' = "md_rename" /\ UNCHANGED result
  /\ PollFrame

\* ---- the browser's download, as the download directory shows it

TheDownload == {f \in staged : f.name \in {PartName, FinalName}}

\* the browser creates the in-progress file
BrowserDlAppear ==
  /\ pc = "dl_poll" /\ dlActive
  /\ TheDownload = {}
  /\ staged' = staged \cup {[name |-> PartName, size |-> 1]}
  /\ sinceGrow' = 0
  /\ appearedInWindow' = (appearedInWindow \/ (~started /\ left >= 0))
  /\ twoFiles' = (twoFiles \/ Cardinality(staged') > 1)
  /\ UNCHANGED <<pollVars, histMvVars, flagVars, lastdone, bak, itemDirs, browserVars, pc, result,
                 sessVars, dlVars, navVars, timeVars, readFails, histRunVars,
                 histMdVars, gapOK>>

\* the in-progress file grows
BrowserDlGrow ==
  /\ pc = "dl_poll" /\ dlActive /\ timed
  /\ \E f \in TheDownload :
       /\ f.name = PartName
       /\ f.size < MaxSize
       /\ staged' = (staged \ {f}) \cup {[f EXCEPT !.size = f.size + 1]}
  /\ sinceGrow' = 0
  /\ UNCHANGED <<pollVars, histMvVars, flagVars, lastdone, bak, itemDirs, browserVars, pc, result,
                 sessVars, dlVars, navVars, timeVars, readFails, histRunVars,
                 histMdVars, appearedInWindow, gapOK, twoFiles>>

\* the browser renames the in-progress file to its final name
BrowserDlComplete ==
  /\ pc = "dl_poll" /\ dlActive
  /\ \E f \in TheDownload :
       /\ f.name = PartName
       /\ staged' = (staged \ {f}) \cup {[f EXCEPT !.name = FinalName]}
  /\ dlActive' = FALSE
  /\ UNCHANGED <<pollVars, histMvVars, flagVars, lastdone, bak, itemDirs, cursor, pendingKey,
                 scroll, extraEvents, pc, result, sessVars, dlVars, navVars,
                 timeVars, readFails, histRunVars, histMdVars, histDlVars>>

\* in a run that is not timed: the deadline of the download passes
DeadlinePasses ==
  /\ ~timed /\ pc \in {"dl_poll", "pv_nl_poll"}
  /\ left >= 0
  /\ left' = 0 - 1
  /\ UNCHANGED <<pollVars, histMvVars, flagVars, dirVars, browserVars, pc, result, sessVars, dlVars,
                 navVars, timed, sleepLeft, readFails, histRunVars,
                 histMdVars, histDlVars>>

\* where the program waits with a deadline: the loops of login and
\* download, the select of navLeft
TimedWaits == {"login_poll", "dl_poll", "nl_select"}

\* ---- time, for a timed run: one tick passes.  A sleep or a timer of
\* duration d ends after d at the earliest and MaxLag ticks later at the
\* latest.
TimePass ==
  /\ timed /\ pc \in TimedWaits
  /\ sleepLeft > 0 - MaxLag * tick
  /\ sleepLeft' = sleepLeft - tick
  /\ left' = left - tick
  /\ sinceGrow' = Min(sinceGrow + tick, Minute + tick)
  /\ gapOK' = (gapOK /\ (TheDownload # {} /\ dlActive => sinceGrow' <= Minute))
  /\ UNCHANGED <<pollVars, histMvVars, flagVars, dirVars, browserVars, pc, result, sessVars, dlVars,
                 navVars, timed, readFails, histRunVars, histMdVars,
                 appearedInWindow, twoFiles>>

\* ---- markDone

\* mutant of dlAndMove_AfterDownload: the file is not moved
dlAndMove_AfterDownload_NoMove == "doRun"

\* dlAndMove: after download has returned the file name, moveDownload
dlAndMove_AfterDownload == "moveDownload"

\* os.Rename(.lastdone, .lastdone.bak); a missing .lastdone is not an error
markDone_Rename ==
  /\ pc = "md_rename"
  /\ mdOld' = getLastDone /\ mdNew' = location
  /\ IF lastdone # {}
       THEN bak' = lastdone /\ lastdone' = {}
       ELSE UNCHANGED <<bak, lastdone>>
  /\ pc' = "md_open"
  /\ UNCHANGED <<pollVars, histMvVars, flagVars, staged, itemDirs, browserVars, result, sessVars,
                 dlVars, navVars, timeVars, readFails, histRunVars,
                 killedAt, histDlVars>>

\* ioutil.WriteFile, first half: the file is created empty
markDone_Open ==
  /\ pc = "md_open"
  /\ lastdone' = {EmptyStr}
  /\ pc' = "md_write"
  /\ UNCHANGED <<pollVars, histMvVars, flagVars, bak, staged, itemDirs, browserVars, result,
                 sessVars, dlVars, navVars, timeVars, readFails, histRunVars,
                 histMdVars, histDlVars>>

\* mutant of markDone_Write: the backup is removed after the write
markDone_Write_Removes ==
  /\ pc = "md_write"
  /\ lastdone' = {location}
  /\ bak' = {}
  /\ dlLog' = Append(dlLog, location)
  /\ pc' = dlAndMove_AfterDownload
  /\ UNCHANGED <<pollVars, histMvVars, flagVars, staged, itemDirs, browserVars, result,
                 sessVars, started, fileSize, filename, navVars, timeVars,
                 readFails, startMode, startLoc, runMoved, movedEver,
                 prevDone, histMdVars, histDlVars>>

\* ioutil.WriteFile, second half: the location is written; markDone and
\* download return without error
markDone_Write ==
  /\ pc = "md_write"
  /\ lastdone' = {location}
  /\ dlLog' = Append(dlLog, location)
  /\ pc' = dlAndMove_AfterDownload
  /\ UNCHANGED <<pollVars, histMvVars, flagVars, bak, staged, itemDirs, browserVars, result,
                 sessVars, started, fileSize, filename, navVars, timeVars,
                 readFails, startMode, startLoc, runMoved, movedEver,
                 prevDone, histMdVars, histDlVars>>

\* ---- moveDownload

\* mutant of NewDir: one directory for every item
NewDir_Shared(loc) == 1

\* the directory moveDownload makes: parts[4] of the location
NewDir(loc) == Parts(loc)[5]

\* the files of newDir that os.Rename to newFile replaces
Replaced(dir, name) == {r \in relocated : r.dir = dir /\ r.name = name}

\* moveDownload: MkdirAll(newDir), Rename(dlDir/dlFile, newDir/dlFile)
moveDownload ==
  /\ pc = "moveDownload"
  /\ IF Len(Parts(location)) < 5
       THEN /\ Exit("not enough slash separated parts")
            /\ UNCHANGED <<staged, itemDirs, runMoved, movedEver, relocated,
                           overwrites>>
       ELSE /\ itemDirs' = [itemDirs EXCEPT ![NewDir(location)] =
                               @ \cup {filename}]
            /\ staged' = {f \in staged : f.name # filename}
            /\ runMoved' = runMoved \cup {NewDir(location)}
            /\ movedEver' = movedEver \cup {NewDir(location)}
            /\ relocated' =
                 (relocated \ Replaced(NewDir(location), filename))
                   \cup {Relocated(NewDir(location), filename, location)}
            /\ overwrites' =
                 overwrites \cup {<<r.item, location>> :
                                     r \in Replaced(NewDir(location), filename)}
            /\ pc' = "doRun" /\ UNCHANGED result
  /\ UNCHANGED <<flagVars, lastdone, bak, browserVars, sessVars, dlVars,
                 navVars, timeVars, readFails, startMode, startLoc, dlLog,
                 prevDone, histMdVars, histDlVars, runLog, pollVars>>

\* the exit statuses cmd.Run can report as an error; doRun without a -run
\* program returns nil
RunErrors == IF runFlag THEN BOOLEAN ELSE {FALSE}

\* the filePath doRun is given: what moveDownload returned
FilePath == [dir |-> NewDir(location), name |-> filename]

\* mutant of navN_RunFailed: navN goes on after a failed program
navN_RunFailed_GoesOn == "navLeft"

\* navN returns the error of doRun
navN_RunFailed == "exit"

\* navN after dlAndMove: doRun, the count and the two ways of ending the
\* loop
navN_Count ==
  /\ pc = "doRun"
  /\ runLog' = IF runFlag THEN Append(runLog, FilePath) ELSE runLog
  /\ \E err \in RunErrors :
       IF err
         THEN pc' = navN_RunFailed /\ result' = "doRun: exit status"
              /\ UNCHANGED n
         ELSE /\ n' = n + 1
              /\ IF nItemsFlag > 0 /\ n' >= nItemsFlag THEN Exit("OK")
                 ELSE IF HasSuffixItem(location, firstItem) THEN Exit("OK")
                 ELSE pc' = "navLeft" /\ UNCHANGED result
  /\ UNCHANGED <<flagVars, dirVars, browserVars, sLastDone, firstItem,
                 previousScr, location, prevLocation, ready, dlVars, navVars,
                 timeVars, readFails, histRunVars, histMdVars, histDlVars,
                 relocated, overwrites, pollVars>>

\* ---- navLeft and the listener

\* navLeft: listenEvents = true
navLeft_Arm ==
  /\ pc = "navLeft"
  /\ listenEvents' = TRUE
  /\ pc' = "nl_key"
  /\ UNCHANGED <<pollVars, histMvVars, flagVars, dirVars, browserVars, result, sessVars, dlVars,
                 navWaiting, navDone, gPolling, gSending, timeVars, readFails,
                 histRunVars, histMdVars, histDlVars>>

\* the key navLeft dispatches
navLeftKey == "ArrowLeft"

\* navLeft: the ArrowLeft key event, then navWaiting = true and
\* time.NewTimer(time.Minute)
navLeft_Key ==
  /\ pc = "nl_key"
  /\ cursor' = AfterPending
  /\ gPolling' = Spawned(FiresEvent(cursor, AfterPending))
  /\ pendingKey' = navLeftKey
  /\ navWaiting' = TRUE
  /\ left' = (IF timed THEN Minute ELSE left)
  /\ sleepLeft' = (IF timed THEN Minute ELSE sleepLeft)
  /\ pc' = "nl_select"
  /\ UNCHANGED <<pollVars, histMvVars, flagVars, dirVars, scroll, dlActive, extraEvents,
                 result, sessVars, dlVars, listenEvents, navDone, gSending,
                 timed, readFails, histRunVars, histMdVars, histDlVars>>

\* navLeft's select: a value is received from navDone
navLeft_Recv ==
  /\ pc = "nl_select"
  /\ navDone = 1
  /\ navDone' = 0
  /\ LoopEnds
  /\ pc' = "nl_unset"
  /\ UNCHANGED <<pollVars, histMvVars, flagVars, dirVars, browserVars, result, sessVars,
                 dlVars, listenEvents, navWaiting, gPolling, gSending, timed,
                 readFails, histRunVars, histMdVars, histDlVars>>

\* the timer of navLeft's select has fired (in a run that is not timed it
\* may have at any moment)
TimerFired == Slept

\* mutant of navLeft_Timeout: navN notes the error and loops
navLeft_Timeout_GoesOn ==
  /\ pc = "nl_select"
  /\ TimerFired
  /\ pc' = "navN_loc" /\ result' = "timeout waiting for left navigation"
  /\ LoopEnds
  /\ UNCHANGED <<pollVars, histMvVars, flagVars, dirVars, browserVars, sessVars, dlVars,
                 navVars, timed, readFails, histRunVars, histMdVars,
                 histDlVars>>

\* navLeft's select: the one minute timer fires; navN returns the error
navLeft_Timeout ==
  /\ pc = "nl_select"
  /\ TimerFired
  /\ Exit("timeout waiting for left navigation")
  /\ LoopEnds
  /\ UNCHANGED <<pollVars, histMvVars, flagVars, dirVars, browserVars, sessVars, dlVars,
                 navVars, timed, readFails, histRunVars, histMdVars,
                 histDlVars>>

\* navLeft: navWaiting = false, and navN loops
navLeft_Unset ==
  /\ pc = "nl_unset"
  /\ navWaiting' = FALSE
  /\ pc' = "navN_loc"
  /\ UNCHANGED <<pollVars, histMvVars, flagVars, dirVars, browserVars, result, sessVars, dlVars,
                 listenEvents, navDone, gPolling, gSending, timeVars,
                 readFails, histRunVars, histMdVars, histDlVars>>

\* a goroutine of the listener finds navWaiting set
listener_Waiting ==
  /\ pc # "exit"
  /\ gPolling > 0 /\ navWaiting
  /\ gPolling' = gPolling - 1 /\ gSending' = gSending + 1
  /\ UNCHANGED <<pollVars, histMvVars, flagVars, dirVars, browserVars, pc, result, sessVars, dlVars,
                 listenEvents, navWaiting, navDone, timeVars, readFails,
                 histRunVars, histMdVars, histDlVars>>

\* a goroutine of the listener sends on navDone (capacity 1) and ends
listener_Send ==
  /\ pc # "exit"
  /\ gSending > 0 /\ navDone = 0
  /\ gSending' = gSending - 1 /\ navDone' = 1
  /\ UNCHANGED <<pollVars, histMvVars, flagVars, dirVars, browserVars, pc, result, sessVars, dlVars,
                 listenEvents, navWaiting, gPolling, timeVars, readFails,
                 histRunVars, histMdVars, histDlVars>>

\* the page fires one more EventNavigatedWithinDocument than its cursor
\* moves (a navigation within the document that leaves the item shown)
BrowserExtraEvent ==
  /\ pc \in {"nl_select", "nl_unset", "navN_loc", "dl_poll"}
  /\ cursor \in Items
  /\ extraEvents < MaxExtraEvents
  /\ extraEvents' = extraEvents + 1
  /\ gPolling' = Spawned(TRUE)
  /\ UNCHANGED <<pollVars, histMvVars, flagVars, dirVars, cursor, pendingKey, scroll, dlActive, pc,
                 result, sessVars, dlVars, listenEvents, navWaiting, navDone,
                 gSending, timeVars, readFails, histRunVars, histMdVars,
                 histDlVars>>

\* ---- the end of a run and the next one

\* the last item of the download log that was moved, 0 if none
LastMoved ==
  IF \E k \in 1..Len(dlLog) : dlLog[k] \in runMoved
    THEN dlLog[CHOOSE k \in 1..Len(dlLog) :
                 /\ dlLog[k] \in runMoved
                 /\ \A j \in (k + 1)..Len(dlLog) : dlLog[j] \notin runMoved]
    ELSE 0

\* N when the items completed so far (downloaded, marked and moved) are
\* the N oldest items of the feed and the run has just completed item N in
\* feed order; 0 otherwise
LastCompleted ==
  IF LastMoved > 0 /\ movedEver = 1..LastMoved
       /\ \A k \in 1..Len(dlLog) : dlLog[k] = startLoc + (k - 1)
    THEN LastMoved
    ELSE 0

\* main starts again on the same download directory, with its flags
\* chosen anew; a download the browser had not finished stays as it is
StartNextRun ==
  /\ run < MaxRuns
  /\ run' = run + 1
  /\ startFlag' \in StartFlagChoices
  /\ nItemsFlag' \in NFlagChoices
  /\ runFlag' \in RunFlagChoices
  /\ runLog' = <<>>
  /\ FreshBrowser(cursor', pendingKey', scroll', dlActive', extraEvents')
  /\ FreshProcess(pc', result', sLastDone', firstItem', previousScr',
                  location', prevLocation', ready', n', started', fileSize',
                  filename')
  /\ FreshListener(listenEvents', navWaiting', navDone', gPolling', gSending')
  /\ FreshRunHistory(startMode', startLoc', dlLog', runMoved')
  /\ FreshDlHistory(sinceGrow', appearedInWindow', gapOK', twoFiles')
  /\ prevDone' = LastCompleted
  /\ UNCHANGED <<allFlag, listFlag, dirVars, timeVars, readFails, movedEver,
                 mdOld, mdNew, relocated, overwrites, pollVars>>

\* the process is killed in the middle of a run
Kill ==
  /\ pc # "exit"
  /\ killedAt' = pc
  /\ StartNextRun

\* the run has ended and main is started again
Rerun ==
  /\ pc = "exit"
  /\ killedAt' = "exit"
  /\ StartNextRun

\* ---- the runs of main, without faults of the filesystem

Browser ==
  \/ BrowserApply
  \/ BrowserScroll
  \/ BrowserExtraEvent
  \/ BrowserDlAppear
  \/ BrowserDlComplete

Main ==
  \/ NewSession \/ cleanDlDir \/ login \/ setFirstItem
  \/ firstNav_Start \/ firstNav_LastDone \/ firstNav_Gone \/ firstNav_Seek
  \/ navToEnd \/ navToLast_Key \/ navToLast_Location
  \/ navN_Start \/ navN_Location \/ navN_Count

Download ==
  \/ startDownload
  \/ DeadlinePasses
  \/ dlPoll_TooLong \/ dlPoll_HitDeadline \/ dlPoll_None
  \/ dlPoll_Progress \/ dlPoll_Done

MarkDone == markDone_Rename \/ markDone_Open \/ markDone_Write

NavLeft ==
  \/ navLeft_Arm \/ navLeft_Key \/ navLeft_Recv \/ navLeft_Timeout
  \/ navLeft_Unset
  \/ listener_Waiting \/ listener_Send

Next ==
  \/ Main \/ Download \/ MarkDone \/ moveDownload \/ NavLeft
  \/ Browser
  \/ Kill \/ Rerun

Spec == Init /\ [][Next]_vars

\* ---- one timed download, with the faults of its environment

\* another regular file turns up in the download directory
OtherFileAppears ==
  /\ timed /\ pc = "dl_poll"
  /\ \A f \in staged : f.name # OtherName
  /\ staged' = staged \cup {[name |-> OtherName, size |-> 1]}
  /\ appearedInWindow' = (appearedInWindow \/ (~started /\ left >= 0))
  /\ twoFiles' = (twoFiles \/ Cardinality(staged') > 1)
  /\ UNCHANGED <<pollVars, histMvVars, flagVars, lastdone, bak, itemDirs, browserVars, pc, result,
                 sessVars, dlVars, navVars, timeVars, readFails, histRunVars,
                 histMdVars, sinceGrow, gapOK>>

\* and is taken away again
OtherFileRemoved ==
  /\ timed /\ pc = "dl_poll"
  /\ staged' = {f \in staged : f.name # OtherName}
  /\ staged' # staged
  /\ UNCHANGED <<pollVars, histMvVars, flagVars, lastdone, bak, itemDirs, browserVars, pc, result,
                 sessVars, dlVars, navVars, timeVars, readFails, histRunVars,
                 histMdVars, histDlVars>>

\* the download directory becomes unreadable
ReadDirFails ==
  /\ timed /\ pc = "dl_poll"
  /\ ~readFails
  /\ readFails' = TRUE
  /\ UNCHANGED <<pollVars, histMvVars, flagVars, dirVars, browserVars, pc, result, sessVars, dlVars,
                 navVars, timeVars, histRunVars, histMdVars, histDlVars>>

\* markDone's "restore from backup": os.Rename(.lastdone.bak, .lastdone); a
\* missing backup is not an error and leaves what the write left
Restored(written) == IF bak # {} THEN bak ELSE written

\* ioutil.WriteFile fails before it has created the file; the backup is
\* restored and the error returned
markDone_OpenFails ==
  /\ timed /\ pc = "md_open"
  /\ lastdone' = Restored(lastdone)
  /\ bak' = {}
  /\ Exit("markDone: write failed")
  /\ UNCHANGED <<pollVars, histMvVars, flagVars, staged, itemDirs, browserVars, sessVars, started,
                 fileSize, filename, navVars, timeVars, readFails,
                 histRunVars, histMdVars, histDlVars>>

\* what a failed write leaves in the file it had created: nothing, or a
\* part of the location
PartlyWritten == {EmptyStr, TruncUrl}

\* ioutil.WriteFile fails after it has created the file; the backup is
\* restored and the error returned
markDone_WriteFails ==
  /\ timed /\ pc = "md_write"
  /\ \E c \in PartlyWritten : lastdone' = Restored({c})
  /\ bak' = {}
  /\ Exit("markDone: write failed")
  /\ UNCHANGED <<pollVars, histMvVars, flagVars, staged, itemDirs, browserVars, sessVars, started,
                 fileSize, filename, navVars, timeVars, readFails,
                 histRunVars, histMdVars, histDlVars>>

\* ioutil.WriteFile fails and so does the rename that restores the backup
markDone_RestoreFails ==
  /\ timed /\ pc \in {"md_open", "md_write"}
  /\ bak # {}
  /\ Exit("markDone: restore failed")
  /\ UNCHANGED <<pollVars, histMvVars, flagVars, dirVars, browserVars, sessVars, started, fileSize,
                 filename, navVars, timeVars, readFails, histRunVars,
                 histMdVars, histDlVars>>

\* mutant of moveDownload_Fails: the sentinel is put back
moveDownload_Fails_Unmarks ==
  /\ timed /\ pc = "moveDownload"
  /\ Len(Parts(location)) >= 5
  /\ lastdone' = (IF mdOld = EmptyStr THEN {} ELSE {mdOld})
  /\ Exit("moveDownload: failed")
  /\ UNCHANGED <<pollVars, histMvVars, flagVars, bak, staged, itemDirs, browserVars,
                 sessVars, dlVars, navVars, timeVars, readFails, histRunVars,
                 histMdVars, histDlVars>>

\* os.MkdirAll or os.Rename fails in moveDownload: the staged file stays
\* where it is and the error is returned
moveDownload_Fails ==
  /\ timed /\ pc = "moveDownload"
  /\ Len(Parts(location)) >= 5
  /\ Exit("moveDownload: failed")
  /\ UNCHANGED <<pollVars, histMvVars, flagVars, dirVars, browserVars, sessVars, dlVars,
                 navVars, timeVars, readFails, histRunVars, histMdVars,
                 histDlVars>>

\* navN of a run started with -start is about to download its first item;
\* the download directory is empty, or holds the sentinel and the item of
\* an earlier run that downloaded the oldest item only
InitDl ==
  /\ startFlag \in Items \ {1}
  /\ nItemsFlag = 0 - 1
  /\ runFlag = FALSE /\ allFlag = FALSE /\ listFlag = FALSE
  /\ overwrites = {} /\ runLog = <<>>
  /\ backoff = 0 /\ polls = 0
  /\ \E earlier \in BOOLEAN :
       /\ run = (IF earlier THEN 2 ELSE 1)
       /\ lastdone = (IF earlier THEN {1} ELSE {})
       /\ itemDirs = [i \in Items |->
                        IF earlier /\ i = 1 THEN {FinalName} ELSE {}]
       /\ movedEver = (IF earlier THEN {1} ELSE {})
       /\ relocated = (IF earlier THEN {Relocated(1, FinalName, 1)} ELSE {})
       /\ prevDone = (IF earlier THEN 1 ELSE 0)
       /\ killedAt = (IF earlier THEN "exit" ELSE "none")
       /\ sLastDone = (IF earlier THEN 1 ELSE EmptyStr)
  /\ bak = {} /\ staged = {}
  /\ cursor = startFlag /\ pendingKey = "none" /\ scroll = 0
  /\ dlActive = FALSE /\ extraEvents = 0
  /\ pc = "startDownload" /\ result = "running"
  /\ firstItem = NItems /\ previousScr = {}
  /\ location = startFlag /\ prevLocation = startFlag
  /\ ready = FALSE /\ n = 0
  /\ started = FALSE /\ fileSize = 0 /\ filename = ""
  /\ FreshListener(listenEvents, navWaiting, navDone, gPolling, gSending)
  /\ timed = TRUE /\ left = 0 /\ sleepLeft = 0
  /\ readFails = FALSE
  /\ startMode = "start" /\ startLoc = startFlag /\ dlLog = <<>>
  /\ runMoved = {}
  /\ mdOld = EmptyStr /\ mdNew = EmptyStr
  /\ FreshDlHistory(sinceGrow, appearedInWindow, gapOK, twoFiles)

\* ---- a timed run: the waits of login, download and navLeft
\* (runs without -headless)

\* login: chromedp.Navigate ends on the landing page, or on the about
\* page for a user who is not authenticated; timeout is two minutes away
login_Navigate ==
  /\ timed /\ pc = "login"
  /\ cursor' \in {LandingUrl, AboutUrl}
  /\ left' = 2 * Minute /\ sleepLeft' = 0
  /\ pc' = "login_poll"
  /\ UNCHANGED <<pollVars, histMvVars, flagVars, dirVars, pendingKey, scroll, dlActive,
                 extraEvents, result, sessVars, dlVars, navVars, timed,
                 readFails, histRunVars, histMdVars, histDlVars>>

\* one iteration of login's loop
login_Poll ==
  /\ pc = "login_poll" /\ Slept
  /\ IF AfterDeadline
       THEN Exit("timeout waiting for authentication") /\ LoopEnds
       ELSE IF cursor = LandingUrl
         THEN pc' = "setFirstItem" /\ LoopEnds /\ UNCHANGED result
         ELSE /\ sleepLeft' = Second
              /\ UNCHANGED <<pc, result, left>>
  /\ UNCHANGED <<pollVars, histMvVars, flagVars, dirVars, browserVars, sessVars, dlVars,
                 navVars, timed, readFails, histRunVars, histMdVars,
                 histDlVars>>

\* the user authenticates
BrowserAuthenticates ==
  /\ pc = "login_poll" /\ cursor = AboutUrl
  /\ cursor' = LandingUrl
  /\ UNCHANGED <<pollVars, histMvVars, flagVars, dirVars, pendingKey, scroll, dlActive,
                 extraEvents, pc, result, sessVars, dlVars, navVars, timeVars,
                 readFails, histRunVars, histMdVars, histDlVars>>

\* main has parsed its flags: -start on the item before the newest, the
\* download directory is empty
InitWait ==
  /\ run = 1
  /\ startFlag = NItems - 1
  /\ nItemsFlag = 0 - 1
  /\ runFlag = FALSE /\ allFlag = FALSE /\ listFlag = FALSE
  /\ relocated = {} /\ overwrites = {} /\ runLog = <<>>
  /\ backoff = 0 /\ polls = 0
  /\ lastdone = {} /\ bak = {} /\ staged = {}
  /\ itemDirs = [i \in Items |-> {}]
  /\ FreshBrowser(cursor, pendingKey, scroll, dlActive, extraEvents)
  /\ FreshProcess(pc, result, sLastDone, firstItem, previousScr, location,
                  prevLocation, ready, n, started, fileSize, filename)
  /\ FreshListener(listenEvents, navWaiting, navDone, gPolling, gSending)
  /\ timed = TRUE /\ left = 0 /\ sleepLeft = 0
  /\ readFails = FALSE
  /\ FreshRunHistory(startMode, startLoc, dlLog, runMoved)
  /\ movedEver = {} /\ prevDone = 0
  /\ mdOld = EmptyStr /\ mdNew = EmptyStr /\ killedAt = "none"
  /\ FreshDlHistory(sinceGrow, appearedInWindow, gapOK, twoFiles)

\* the steps of the program in a timed run; nothing but the browser writes
\* to the download directory in these runs, so download never finds more
\* than one file there
ProgramWait ==
  \/ NewSession \/ cleanDlDir \/ login_Navigate \/ login_Poll
  \/ setFirstItem \/ firstNav_Start
  \/ navN_Start \/ navN_Location \/ navN_Count
  \/ startDownload
  \/ dlPoll_TooLong \/ dlPoll_HitDeadline \/ dlPoll_ReadErr
  \/ dlPoll_None \/ dlPoll_Progress \/ dlPoll_Done
  \/ MarkDone \/ moveDownload
  \/ navLeft_Arm \/ navLeft_Key \/ navLeft_Recv \/ navLeft_Timeout
  \/ navLeft_Unset
  \/ listener_Waiting \/ listener_Send

\* the steps of the browser and of the filesystem
EnvWait ==
  \/ BrowserAuthenticates \/ BrowserApply
  \/ BrowserDlAppear \/ BrowserDlGrow \/ BrowserDlComplete
  \/ ReadDirFails

NextWait == ProgramWait \/ EnvWait \/ TimePass

\* the process keeps running and time keeps passing
SpecWait ==
  InitWait /\ [][NextWait]_vars /\ WF_vars(ProgramWait) /\ WF_vars(TimePass)

NextDl ==
  \/ startDownload
  \/ TimePass
  \/ BrowserDlAppear \/ BrowserDlGrow \/ BrowserDlComplete
  \/ OtherFileAppears \/ OtherFileRemoved \/ ReadDirFails
  \/ dlPoll_TooLong \/ dlPoll_HitDeadline \/ dlPoll_ReadErr
  \/ dlPoll_None \/ dlPoll_MoreThanOne \/ dlPoll_Progress \/ dlPoll_Done
  \/ MarkDone
  \/ markDone_OpenFails \/ markDone_WriteFails \/ markDone_RestoreFails
  \/ moveDownload \/ moveDownload_Fails

SpecDl == InitDl /\ [][NextDl]_vars

\* ---- the polling variant (unnamed/part_000): main, firstNav, navN and
\* navLeft differ from main.go; NewSession, login, navToEnd's scroll,
\* navToLast, download and moveDownload are the same code

\* main, after flag.Parse: -list implies -all, and -start with -all ends
\* the run (-start is given in dev mode only)
pv_main ==
  /\ pc = "pv_main"
  /\ allFlag' = (allFlag \/ listFlag)
  /\ IF startFlag # EmptyStr /\ allFlag'
       THEN Exit("-start is ignored if -all")
       ELSE pc' = "NewSession" /\ UNCHANGED result
  /\ UNCHANGED <<pollVars, histMvVars, run, startFlag, nItemsFlag, runFlag, listFlag,
                 dirVars, browserVars, sessVars, dlVars, navVars, timeVars,
                 readFails, histRunVars, histMdVars, histDlVars>>

\* cleanDlDir: removes every regular file of dlDir, .lastdone too
pv_cleanDlDir ==
  /\ pc = "cleanDlDir"
  /\ lastdone' = {} /\ bak' = {} /\ staged' = {}
  /\ pc' = "login"
  /\ UNCHANGED <<pollVars, histMvVars, flagVars, itemDirs, browserVars, result,
                 sessVars, dlVars, navVars, timeVars, readFails, histRunVars,
                 histMdVars, histDlVars>>

\* firstNav begins with lastPhoto: the href of the first photo of the
\* landing page is read and logged, and kept nowhere
pv_lastPhoto ==
  /\ pc = "setFirstItem"
  /\ pc' = "firstNav"
  /\ UNCHANGED <<pollVars, histMvVars, flagVars, dirVars, browserVars, result,
                 sessVars, dlVars, navVars, timeVars, readFails, histRunVars,
                 histMdVars, histDlVars>>

\* firstNav with a sentinel: navigates to it (the answer is not looked at)
pv_firstNav_LastDone ==
  /\ pc = "firstNav"
  /\ startFlag = EmptyStr
  /\ sLastDone # EmptyStr
  /\ cursor' = sLastDone
  /\ pc' = "navN"
  /\ startMode' = "lastdone"
  /\ UNCHANGED <<pollVars, histMvVars, flagVars, dirVars, pendingKey, scroll, dlActive,
                 extraEvents, result, sessVars, dlVars, navVars, timeVars,
                 readFails, startLoc, dlLog, runMoved, movedEver, prevDone,
                 histMdVars, histDlVars>>

\* navN's loop, from chromedp.Location to dlAndMove, or to the count when
\* the run only lists
pv_navN_Location ==
  /\ pc = "navN_loc"
  /\ location' = cursor
  /\ IF cursor = prevLocation
       THEN Exit("OK") /\ UNCHANGED <<prevLocation, startLoc>>
       ELSE /\ prevLocation' = cursor
            /\ pc' = (IF listFlag THEN "doRun" ELSE "startDownload")
            /\ startLoc' = IF startLoc = EmptyStr THEN cursor ELSE startLoc
            /\ UNCHANGED result
  /\ UNCHANGED <<pollVars, histMvVars, flagVars, dirVars, browserVars, sLastDone,
                 firstItem, previousScr, ready, n, dlVars, navVars, timeVars,
                 readFails, startMode, dlLog, runMoved, movedEver, prevDone,
                 histMdVars, histDlVars>>

\* markDone: ioutil.WriteFile on .lastdone, without a backup
pv_markDone ==
  /\ pc = "md_rename"
  /\ mdOld' = getLastDone /\ mdNew' = location
  /\ pc' = "md_open"
  /\ UNCHANGED <<pollVars, histMvVars, flagVars, dirVars, browserVars, result,
                 sessVars, dlVars, navVars, timeVars, readFails, histRunVars,
                 killedAt, histDlVars>>

\* navN after dlAndMove and doRun (neither when the run only lists): the
\* count; the loop ends here on the count only
pv_navN_Count ==
  /\ pc = "doRun"
  /\ runLog' = IF runFlag /\ ~listFlag THEN Append(runLog, FilePath)
                ELSE runLog
  /\ \E err \in (IF listFlag THEN {FALSE} ELSE RunErrors) :
       IF err
         THEN pc' = navN_RunFailed /\ result' = "doRun: exit status"
              /\ UNCHANGED n
         ELSE /\ n' = n + 1
              /\ IF nItemsFlag > 0 /\ n' >= nItemsFlag THEN Exit("OK")
                 ELSE pc' = "pv_navLeft" /\ UNCHANGED result
  /\ UNCHANGED <<flagVars, dirVars, browserVars, sLastDone, firstItem,
                 previousScr, location, prevLocation, ready, dlVars, navVars,
                 timeVars, readFails, histRunVars, histMdVars, histDlVars,
                 relocated, overwrites, pollVars>>

\* mutant of NextBackoff: the sleep grows by its first value
NextBackoff_Linear(b) == Min(b + initBackoff, maxBackoff)

\* navLeft: the backoff after a sleep, doubled up to maxBackoff
NextBackoff(b) ==
  IF b < maxBackoff THEN Min(b * 2, maxBackoff) ELSE b

\* navLeft: the deadline five minutes away, the first backoff and the
\* ArrowLeft key event
pv_navLeft_Key ==
  /\ pc = "pv_navLeft"
  /\ cursor' = AfterPending
  /\ pendingKey' = navLeftKey
  /\ left' = 0
  /\ backoff' = initBackoff /\ polls' = 0
  /\ pc' = "pv_nl_poll"
  /\ UNCHANGED <<histMvVars, flagVars, dirVars, scroll, dlActive, extraEvents,
                 result, sessVars, dlVars, navVars, timed, sleepLeft,
                 readFails, histRunVars, histMdVars, histDlVars>>

\* mutant of AfterNavLeft: navN reloads the page after every item
AfterNavLeft_Always == "pv_reload"

\* navN after navLeft has returned nil: the page is reloaded when the
\* count is a multiple of batchSize
AfterNavLeft == IF n % batchSize = 0 THEN "pv_reload" ELSE "navN_loc"

\* one iteration of navLeft's loop: it returns nil when the location has
\* changed, and also when the deadline has passed; else it sleeps for the
\* backoff and computes the next one
pv_navLeft_Poll ==
  /\ pc = "pv_nl_poll"
  /\ IF cursor # prevLocation \/ AfterDeadline
       THEN /\ pc' = AfterNavLeft /\ left' = 0
            /\ backoff' = 0 /\ polls' = 0
       ELSE /\ polls < MaxPolls
            /\ polls' = polls + 1
            /\ backoff' = NextBackoff(backoff)
            /\ UNCHANGED <<pc, left>>
  /\ UNCHANGED <<histMvVars, flagVars, dirVars, browserVars, result,
                 sessVars, dlVars, navVars, timed, sleepLeft, readFails,
                 histRunVars, histMdVars, histDlVars>>

\* navN: chromedp.Reload. The page comes back on the address it was on; a
\* key it had not handled yet is handled before the reload or lost with
\* it. A failed reload is returned by navN.
pv_Reload ==
  /\ pc = "pv_reload"
  /\ \E ok \in BOOLEAN :
       IF ok
         THEN /\ cursor' \in {cursor, AfterPending}
              /\ pendingKey' = "none"
              /\ pc' = "navN_loc" /\ UNCHANGED result
         ELSE /\ Exit("reload: error")
              /\ UNCHANGED <<cursor, pendingKey>>
  /\ UNCHANGED <<pollVars, histMvVars, flagVars, dirVars, scroll, dlActive,
                 extraEvents, sessVars, dlVars, navVars, timeVars, readFails,
                 histRunVars, histMdVars, histDlVars>>

\* the download directories a run can find: empty, or with the sentinel
\* and the items of earlier runs that went from the oldest item to item d
DoneBefore == 0..NItems

\* main is started
InitPoll ==
  /\ run = 1
  /\ startFlag \in StartFlagChoices
  /\ nItemsFlag \in NFlagChoices
  /\ runFlag \in RunFlagChoices
  /\ allFlag \in BOOLEAN /\ listFlag \in BOOLEAN
  /\ \E d \in DoneBefore :
       /\ lastdone = (IF d = 0 THEN {} ELSE {d})
       /\ itemDirs = [i \in Items |-> IF i <= d THEN {FinalName} ELSE {}]
       /\ relocated = {Relocated(i, FinalName, i) : i \in 1..d}
       /\ movedEver = 1..d
       /\ prevDone = d
  /\ overwrites = {} /\ runLog = <<>>
  /\ backoff = 0 /\ polls = 0
  /\ bak = {} /\ staged = {}
  /\ FreshBrowser(cursor, pendingKey, scroll, dlActive, extraEvents)
  /\ pc = "pv_main" /\ result = "running"
  /\ sLastDone = EmptyStr /\ firstItem = EmptyStr /\ previousScr = {}
  /\ location = EmptyStr /\ prevLocation = EmptyStr /\ ready = FALSE /\ n = 0
  /\ started = FALSE /\ fileSize = 0 /\ filename = ""
  /\ FreshListener(listenEvents, navWaiting, navDone, gPolling, gSending)
  /\ timed = FALSE /\ left = 0 /\ sleepLeft = 0
  /\ readFails = FALSE
  /\ FreshRunHistory(startMode, startLoc, dlLog, runMoved)
  /\ mdOld = EmptyStr /\ mdNew = EmptyStr /\ killedAt = "none"
  /\ FreshDlHistory(sinceGrow, appearedInWindow, gapOK, twoFiles)

NextPoll ==
  \/ pv_main \/ NewSession \/ pv_cleanDlDir \/ login \/ pv_lastPhoto
  \/ firstNav_Start \/ pv_firstNav_LastDone \/ firstNav_Seek
  \/ navToEnd \/ BrowserScroll \/ navToLast_Key \/ navToLast_Location
  \/ navN_Start \/ pv_navN_Location \/ pv_navN_Count
  \/ Download \/ BrowserDlAppear \/ BrowserDlComplete
  \/ pv_markDone \/ markDone_Open \/ markDone_Write \/ moveDownload
  \/ pv_navLeft_Key \/ pv_navLeft_Poll \/ pv_Reload
  \/ BrowserApply

SpecPoll == InitPoll /\ [][NextPoll]_vars

\* ---- firstNav on a page that keeps changing what it shows

\* what the page shows changes between two screenshots (items still
\* loading, a moving picture): the next screenshot differs from the last
BrowserViewChanges ==
  /\ pc = "navToEnd"
  /\ scroll' \in (0..MaxScroll) \ {scroll}
  /\ UNCHANGED <<pollVars, histMvVars, flagVars, dirVars, cursor, pendingKey, dlActive,
                 extraEvents, pc, result, sessVars, dlVars, navVars, timeVars,
                 readFails, histRunVars, histMdVars, histDlVars>>

\* main is started on a download directory that earlier runs may have
\* left a sentinel in
InitEnd ==
  /\ run = 1
  /\ startFlag \in StartFlagChoices
  /\ nItemsFlag \in NFlagChoices
  /\ runFlag \in RunFlagChoices
  /\ allFlag = FALSE /\ listFlag = FALSE
  /\ \E d \in DoneBefore :
       /\ lastdone = (IF d = 0 THEN {} ELSE {d})
       /\ itemDirs = [i \in Items |-> IF i <= d THEN {FinalName} ELSE {}]
       /\ relocated = {Relocated(i, FinalName, i) : i \in 1..d}
       /\ movedEver = 1..d
       /\ prevDone = d
  /\ overwrites = {} /\ runLog = <<>>
  /\ backoff = 0 /\ polls = 0
  /\ bak = {} /\ staged = {}
  /\ FreshBrowser(cursor, pendingKey, scroll, dlActive, extraEvents)
  /\ FreshProcess(pc, result, sLastDone, firstItem, previousScr, location,
                  prevLocation, ready, n, started, fileSize, filename)
  /\ FreshListener(listenEvents, navWaiting, navDone, gPolling, gSending)
  /\ timed = FALSE /\ left = 0 /\ sleepLeft = 0
  /\ readFails = FALSE
  /\ FreshRunHistory(startMode, startLoc, dlLog, runMoved)
  /\ mdOld = EmptyStr /\ mdNew = EmptyStr /\ killedAt = "none"
  /\ FreshDlHistory(sinceGrow, appearedInWindow, gapOK, twoFiles)

\* the steps of main up to navN's first chromedp.Location
ProgramEnd ==
  \/ NewSession \/ cleanDlDir \/ login \/ setFirstItem
  \/ firstNav_Start \/ firstNav_LastDone \/ firstNav_Gone \/ firstNav_Seek
  \/ navToEnd \/ navToLast_Key \/ navToLast_Location
  \/ navN_Start

NextEnd == ProgramEnd \/ BrowserApply \/ BrowserViewChanges

\* the process keeps running
SpecEnd == InitEnd /\ [][NextEnd]_vars /\ WF_vars(ProgramEnd)

\* ==== the claims

\* firstNav went through navToEnd and navToLast: without a sentinel, or
\* after removing one that did not resolve
SeekPath == startMode \in {"seek", "gone"}

\* position k of the run's download log holds the k-th item from the
\* run's starting position towards the newest
Contiguous == \A k \in 1..Len(dlLog) : dlLog[k] = startLoc + (k - 1)

\* the run downloads item i before any newer item
DownloadedFirst(i) ==
  \A k \in 1..Len(dlLog) :
    dlLog[k] > i => \E j \in 1..(k - 1) : dlLog[j] = i

\* a run that was started after a run that completed 1..prevDone (or a
\* part of it ending with prevDone) was killed, with a newer item left
RestartAfterKill ==
  /\ run > 1
  /\ killedAt \notin {"none", "exit"}
  /\ prevDone \in 1..(NItems - 1)

\* C1: a restart after a kill never skips the item after the last
\* completed one: the restarted run downloads item prevDone + 1 before any
\* newer item.  Stated for the restarts that name no -start location (one
\* that does starts where it is told to).
C1_NeverSkips ==
  (RestartAfterKill /\ startFlag = EmptyStr) => DownloadedFirst(prevDone + 1)

\* C2 as stated: a run resumed from the sentinel of item N downloads item
\* N + 1 first.
C2_FirstIsNext ==
  (startMode = "lastdone" /\ dlLog # <<>>) => dlLog[1] = sLastDone + 1

\* C2: a run resumed from the sentinel of item N downloads item N itself
\* first and none of the items older than N.
C2_FirstIsSentinel ==
  startMode = "lastdone" =>
    /\ dlLog # <<>> => dlLog[1] = sLastDone
    /\ \A k \in 1..Len(dlLog) : dlLog[k] >= sLastDone

\* a resumed run downloaded the sentinel's item and the one after it
C2_Witness ==
  /\ startMode = "lastdone" /\ sLastDone = 1 /\ prevDone = 1
  /\ Len(dlLog) >= 2

\* C3: within one run of navN every item from the starting position to the
\* position where the run ends is downloaded exactly once: the downloads
\* are the consecutive items from the starting position, in order, none
\* skipped and none repeated, and a run that ends without error ends on the
\* last item it downloaded.
C3_ExactlyOnce ==
  /\ Contiguous
  /\ (pc = "exit" /\ result = "OK" /\ dlLog # <<>>)
       => dlLog[Len(dlLog)] = location

\* the sentinel a run starts with, once NewSession and cleanDlDir have run
AtStartup == pc = "login"

\* C4: after a kill inside markDone (after its rename), the next startup
\* recovers the previous sentinel or the new one.
C4_CrashSafe ==
  (AtStartup /\ killedAt \in {"md_open", "md_write"})
    => (sLastDone \in {mdOld, mdNew} /\ getLastDone = sLastDone)

WrittenByThisRun(x) == dlLog # <<>> /\ dlLog[Len(dlLog)] = x

DlReturned == pc \in {"exit", "moveDownload"}

\* C5: when the write of the new value fails, markDone returns an error
\* and the sentinel read back is the one from before the call.
C5_WriteFailureRestores ==
  (pc = "exit" /\ result = "markDone: write failed") => getLastDone = mdOld

\* C7 as stated: download returns "more than one file" whenever the
\* directory held two non-sentinel files at some moment between
\* startDownload and the return (and could be read).
C7_TwoFilesEver ==
  (DlReturned /\ twoFiles /\ ~readFails) => result = "more than one file"

\* a step of download's loop: it leaves the loop or starts a new sleep
PollStep == pc = "dl_poll" /\ (pc' # "dl_poll" \/ sleepLeft' > sleepLeft)

\* C7: a poll that reads the directory (its deadline has not passed and
\* the read succeeds) and finds two or more non-sentinel files returns
\* "more than one file".
C7_TwoFilesAtPoll ==
  [][(PollStep /\ NotAfterDeadline /\ ~readFails
        /\ Cardinality(fileEntries) >= 2)
       => (pc' = "exit" /\ result' = "more than one file")]_vars

\* download returned "more than one file" with the download and another
\* file in the directory
C7_Witness ==
  /\ pc = "exit" /\ result = "more than one file"
  /\ Cardinality(staged) = 2 /\ started

\* C8: if the staged file grows at least once within every minute for as
\* long as it is in progress, download does not return a deadline error.
C8_GrowingNeverTimesOut ==
  (DlReturned /\ gapOK /\ started)
    => result # "hit deadline while downloading"

\* an in-progress file that has not grown for more than the window
StalledFile ==
  /\ \E f \in staged : f.name = PartName
  /\ sinceGrow > Minute

\* C9: when download returns while an in-progress file has not grown for
\* more than a minute, it returns an error that is not "took too long to
\* start", and "hit deadline while downloading" unless the directory could
\* not be read or held a second file.
C9_StalledKind ==
  (DlReturned /\ StalledFile) =>
    /\ pc = "exit"
    /\ result # "took too long to start"
    /\ (~readFails /\ ~twoFiles) => result = "hit deadline while downloading"

\* download has returned the stalled-download error with the in-progress
\* file still in the directory, more than a minute after its last growth.
C9_Witness ==
  /\ DlReturned /\ StalledFile /\ ~readFails /\ ~twoFiles
  /\ result = "hit deadline while downloading"

\* C10: when no non-sentinel file appeared within a minute of
\* startDownload, download returns "took too long to start" (unless the
\* directory could not be read); "hit deadline while downloading" is
\* returned only after a file has been observed.
C10_StartKind ==
  /\ (DlReturned /\ ~appearedInWindow /\ ~readFails)
       => (pc = "exit" /\ result = "took too long to start")
  /\ result = "hit deadline while downloading" => started

\* download gave up on a file that appeared after the start window
C10_Witness ==
  /\ pc = "exit" /\ result = "took too long to start"
  /\ ~appearedInWindow /\ staged # {}

\* C11: download leaves its loop for markDone only at a poll that finds
\* exactly one non-sentinel file whose name does not carry the in-progress
\* suffix, and the name it returns is that file's; it never returns the
\* name of a file that still carries the suffix.
C11_SuccessAtCompletePoll ==
  /\ [][(pc = "dl_poll" /\ pc' = "md_rename") =>
          /\ Cardinality(staged) = 1
          /\ \A f \in staged : f.name # PartName /\ filename' = f.name]_vars
  /\ [](pc = "moveDownload" => filename \in {FinalName, OtherName})

\* download has returned the name of the browser's file, which had grown
\* to its full size and lost the suffix
C11_Witness ==
  /\ pc = "moveDownload" /\ filename = FinalName /\ fileSize = MaxSize
  /\ staged = {[name |-> FinalName, size |-> MaxSize]}

Remaining == NItems - startLoc + 1

\* C13: a run of navN with a positive item count N that ends without error
\* has made exactly min(N, R) download iterations, R the number of items
\* from the starting position to the newest item inclusive.
C13_ExactCount ==
  (pc = "exit" /\ result = "OK" /\ nItemsFlag > 0 /\ startLoc \in Items)
    => n = Min(nItemsFlag, Remaining)

\* navN is between the end of doRun and the next call of dlAndMove
AfterDoRun ==
  pc \in {"navLeft", "nl_key", "nl_select", "nl_unset", "navN_loc",
          "startDownload"}

\* C14: with a -run program, the program has been invoked once for each
\* item the run downloaded, in order, each time with the path of the file
\* in the item's directory, where the file then is; the one item that may
\* be without its invocation is the one being moved; navLeft is not called
\* before the invocation; and after a failed invocation navN has returned
\* and nothing more is downloaded in the run.  Without a -run program
\* nothing is invoked.
C14_RunOncePerItem ==
  /\ [](runFlag =>
         /\ Len(runLog) <= Len(dlLog) /\ Len(dlLog) <= Len(runLog) + 1
         /\ \A k \in 1..Len(runLog) :
              /\ runLog[k].dir = dlLog[k]
              /\ runLog[k].name \in itemDirs[runLog[k].dir]
         /\ Len(dlLog) # Len(runLog) => pc \in {"moveDownload", "doRun"}
         /\ AfterDoRun => Len(runLog) = Len(dlLog)
         /\ result = "doRun: exit status" => pc = "exit")
  /\ [](~runFlag => runLog = <<>>)
  /\ [][(result = "doRun: exit status" /\ run' = run)
          => (dlLog' = dlLog /\ lastdone' = lastdone)]_vars

\* the program failed on the second item of a run
C14_Witness ==
  /\ runFlag /\ pc = "exit" /\ result = "doRun: exit status"
  /\ Len(runLog) = 2 /\ Len(dlLog) = 2
  /\ runLog[2].dir = location /\ FinalName \in itemDirs[location]

\* the errors of download's loop
DlErrors ==
  {"took too long to start", "hit deadline while downloading",
   "more than one file", "ReadDir error"}

\* markDone is running
InMarkDone == pc \in {"md_rename", "md_open", "md_write"}

\* C15: markDone runs only after a poll that found the one staged file
\* complete, .lastdone and .lastdone.bak change only inside markDone, no
\* step of download's loop changes them, and when download has returned
\* one of the errors of its loop the sentinel is the one the run started
\* with.
C15_WrittenOnlyAfterComplete ==
  /\ [](InMarkDone =>
         /\ filename # PartName
         /\ staged = {[name |-> filename, size |-> fileSize]})
  /\ [][(lastdone' # lastdone \/ bak' # bak) => InMarkDone]_vars
  /\ [][pc = "dl_poll" => (lastdone' = lastdone /\ bak' = bak)]_vars
  /\ []((pc = "exit" /\ result \in DlErrors)
          => (getLastDone = sLastDone /\ bak = {}))

\* a download that stalled has returned its error and the sentinel of the
\* earlier run is still there
C15_Witness ==
  /\ pc = "exit" /\ result = "hit deadline while downloading"
  /\ lastdone = {1} /\ sLastDone = 1 /\ staged # {}

\* C16 as stated: the sentinel denotes an item of this run only once the
\* item's file has been moved, and after a failed moveDownload it is the
\* sentinel from before the download.
C16_MovedBeforeMarked ==
  /\ \A x \in lastdone : WrittenByThisRun(x) => x \in runMoved
  /\ (pc = "exit" /\ result = "moveDownload: failed") => getLastDone = mdOld

\* moveDownload has failed for the item at location
MoveFailed == pc = "exit" /\ result = "moveDownload: failed"

\* C16: the sentinel is set to an item's location before the item's file
\* is moved and no file is moved before it: an item the run marked and
\* has not moved is the one moveDownload is about to move or has failed to
\* move, its file is still staged, and after a failed moveDownload the
\* sentinel denotes that item.
C16_MarkedBeforeMoved ==
  /\ \A i \in runMoved : \E k \in 1..Len(dlLog) : dlLog[k] = i
  /\ \A x \in lastdone :
       (WrittenByThisRun(x) /\ x \notin runMoved) =>
         /\ pc = "moveDownload" \/ MoveFailed
         /\ \E f \in staged : f.name = filename
  /\ MoveFailed =>
       /\ lastdone = {location} /\ location \notin runMoved
       /\ \E f \in staged : f.name = filename

\* moveDownload failed for an item of a run that had started with the
\* sentinel of an older item
C16_Witness ==
  /\ MoveFailed /\ mdOld = 1 /\ lastdone = {location} /\ location # 1
  /\ itemDirs[location] = {}

\* C17: on the seek path firstNav returns with the cursor on the oldest
\* item, with no key left for the page to handle, and the first item navN
\* downloads is the oldest one.
C17_SeekEndsOnOldest ==
  /\ (SeekPath /\ pc = "navN") => (cursor = 1 /\ AfterPending = 1)
  /\ (SeekPath /\ dlLog # <<>>) => dlLog[1] = 1

\* how late after its deadline a wait can be found waiting: the sleep of
\* its loop and the lag of the wake-up
MaxLate == Second + MaxLag * tick

\* the timeout errors of the three waits
TimeoutErrors ==
  {"timeout waiting for authentication", "took too long to start",
   "hit deadline while downloading", "timeout waiting for left navigation"}

C19_AllIgnoresSentinel ==
  allFlag => startMode \in {"none", "seek"}

\* navLeft of the polling variant is running
InPvNavLeft == pc \in {"pv_navLeft", "pv_nl_poll"}

\* C20: in the polling variant an unbounded run ends on the newest item
\* (the one lastPhoto read) without calling navLeft there.
C20_EndsOnLastPhoto ==
  (nItemsFlag < 0 /\ InPvNavLeft) => location # NItems

\* navN has returned nil and main has printed OK
ReportsOK == pc = "exit" /\ result = "OK"

\* the three ways of ending well: the count is reached, the last location
\* is the boundary anchor, the cursor is on the newest item
EndsWell ==
  \/ nItemsFlag >= 0 /\ n >= nItemsFlag
  \/ HasSuffixItem(location, firstItem)
  \/ AfterPending = NItems

\* C21: in main.go a run reports OK only with the requested count
\* reached, with the last downloaded location on the boundary anchor, or
\* with the cursor on the newest item; never with the cursor mid-feed.
C21_OkOnlyAtEnd ==
  ReportsOK => EndsWell

\* C22: in the polling variant a run whose navLeft gave up at its ceiling
\* with the cursor unchanged, short of the newest item and of the count,
\* does not report OK.
C22_CeilingFails ==
  ReportsOK => \/ nItemsFlag >= 0 /\ n >= nItemsFlag
               \/ location = NItems

\* navN has returned an error: main has ended with log.Fatal
Failed == result \notin {"running", "OK"}

\* what the program and its browser hold in one run: the download
\* directory, the cursor, the locals and the listener
RunState == <<dirVars, cursor, pendingKey, dlActive, pc, result, sessVars,
              dlVars, navVars, dlLog, runLog>>

\* the error each failing call of navN's loop returns
ErrorOf(p) ==
  IF p = "dl_poll" THEN DlErrors
  ELSE IF p = "doRun" THEN {"doRun: exit status"}
  ELSE IF p = "nl_select" THEN {"timeout waiting for left navigation"}
  ELSE {}

\* C23: once dlAndMove, doRun or navLeft has returned an error, navN has
\* returned it: the run is over with that error, and starts no download,
\* writes no sentinel, moves no cursor and reports no OK afterwards.
C23_FailureAbsorbing ==
  /\ [](Failed => pc = "exit")
  /\ [][(Failed /\ run' = run) => UNCHANGED RunState]_vars
  /\ [][(~Failed /\ Failed' /\ run' = run) => result' \in ErrorOf(pc)]_vars

C23_Witness ==
  /\ pc = "exit" /\ result = "timeout waiting for left navigation"
  /\ pendingKey = "ArrowLeft" /\ cursor = 2 /\ lastdone = {2}
  /\ dlLog = <<1, 2>>

\* C24: when the sentinel's location does not answer 200, firstNav forgets
\* the sentinel, removes .lastdone, goes back to the landing page and takes
\* the seek path, and the run starts at the oldest item with no sentinel
\* on disk.
C24_GoneRestartsAtOldest ==
  /\ startMode = "gone" => sLastDone = EmptyStr
  /\ (startMode = "gone" /\ dlLog = <<>> /\ ~InMarkDone) => lastdone = {}
  /\ (startMode = "gone" /\ pc = "navToEnd") => cursor = LandingUrl
  /\ (startMode = "gone" /\ startLoc # EmptyStr) => startLoc = 1

\* navToEnd or navToLast is running, or has left its traces in the locals
SeekInvoked ==
  \/ pc \in {"navToEnd", "navToLast", "navToLast_loc"}
  \/ previousScr # {} \/ ready

\* firstNav has returned and navN has not read the location yet
AtFirstNavReturn == pc = "navN"

\* C25: firstNav takes the -start location if given, else the sentinel's
\* if there is one and it resolves, else the oldest item; in the first two
\* cases navToEnd and navToLast are not invoked.
C25_Precedence ==
  /\ startFlag # EmptyStr => startMode \in {"none", "start"}
  /\ startMode = "start" => startFlag # EmptyStr /\ ~SeekInvoked
  /\ startMode = "lastdone" =>
       /\ startFlag = EmptyStr
       /\ sLastDone # EmptyStr /\ CanResolve(sLastDone)
       /\ ~SeekInvoked
  /\ SeekPath => startFlag = EmptyStr /\ sLastDone = EmptyStr
  /\ AtFirstNavReturn =>
       AfterPending = (IF startMode = "start" THEN startFlag
                       ELSE IF startMode = "lastdone" THEN sLastDone
                       ELSE 1)

\* C26: navToEnd does not probe forever: when the snapshots keep differing
\* it gives up (with a locator error) after a bounded number of probes.
C26_NavToEndGivesUp ==
  (pc = "navToEnd") ~> (pc # "navToEnd")

\* navLeft has armed the listener and has not returned yet (the window is
\* taken at its widest: from listenEvents = true to navWaiting = false)
InNavLeftWindow == pc \in {"nl_key", "nl_select", "nl_unset"}

\* C27: an event that arrives outside navLeft's window (before its key
\* press or after its return, as during the next download) is discarded:
\* no goroutine is started for it, so nothing of it reaches a later call.
C27_OutsideDiscarded ==
  [][gPolling' > gPolling => InNavLeftWindow]_vars

\* C28: navLeft returns nil only once the page has handled the ArrowLeft
\* of this call: a notification left by an earlier event does not satisfy
\* its wait.
C28_OwnEventOnly ==
  [][(pc = "nl_select" /\ pc' = "nl_unset") => pendingKey = "none"]_vars

\* the polling variant's navLeft is about to sleep: the poll has found
\* the cursor unchanged and the deadline not passed
Sleeps == pc = "pv_nl_poll" /\ polls' = polls + 1

\* C29: in the polling variant's navLeft the sleep before the k-th re-poll
\* is min(10 * 2^k, 500) ms: it starts at 10 ms, doubles after every poll
\* that finds the cursor unchanged, never exceeds 500 ms and never
\* decreases within one call.
C29_BackoffSchedule ==
  /\ [][Sleeps => backoff = Min(10 * 2^polls, 500)]_vars
  /\ [][Sleeps => backoff' >= backoff]_vars
  /\ [](pc = "pv_nl_poll" => (backoff >= 10 /\ backoff <= 500))
  /\ [](pc = "pv_nl_poll" /\ polls = 0 => backoff = 10)

C29_Witness ==
  pc = "pv_nl_poll" /\ polls = 7 /\ backoff = 500 /\ cursor = prevLocation

\* navLeft of the polling variant returns (nil) to navN
NavLeftReturns == pc = "pv_nl_poll" /\ pc' # "pv_nl_poll"

\* C30: in the polling variant navN reloads the page exactly when navLeft
\* has returned with the count on a positive multiple of batchSize (the
\* loop has not ended on the count); after a reload the loop goes on from
\* the cursor navLeft left, and a failed reload ends the run with its
\* error.
C30_ReloadEveryBatch ==
  /\ [][NavLeftReturns => (pc' = "pv_reload" <=> (n > 0 /\ n % batchSize = 0))]_vars
  /\ [][(pc # "pv_reload" /\ pc' = "pv_reload") => NavLeftReturns]_vars
  /\ [][(pc = "pv_reload" /\ pc' # "pv_reload") =>
          \/ /\ pc' = "navN_loc" /\ result' = result
             /\ cursor' \in {cursor, AfterPending}
             /\ n' = n /\ prevLocation' = prevLocation
          \/ /\ pc' = "exit" /\ result' = "reload: error"
             /\ cursor' = cursor /\ n' = n]_vars
  /\ [](pc = "pv_reload" => (nItemsFlag < 0 \/ n < nItemsFlag))

C30_Witness ==
  ReportsOK /\ n > batchSize /\ location = NItems /\ startLoc = 1

C32_AnchorSetOnce ==
  /\ [][(firstItem' # firstItem /\ run' = run) =>
          /\ pc = "setFirstItem" /\ firstItem = EmptyStr
          /\ cursor = LandingUrl /\ startMode = "none"]_vars
  /\ [](startMode # "none" => firstItem = NItems)

C32_Witness ==
  /\ ReportsOK /\ startMode = "lastdone" /\ firstItem = NItems
  /\ location = NItems /\ nItemsFlag < 0 /\ n = 2

C34_StoppedBeforeRun == run >= 2 /\ killedAt \in {"moveDownload", "doRun"}

\* C34: a run resumed from the sentinel that a stopped run committed for
\* item X (the run stopped before doRun had succeeded for X) downloads X
\* again, first, and invokes doRun on it.
C34_AtLeastOnce ==
  /\ [](C34_StoppedBeforeRun /\ pc = "cleanDlDir" =>
          sLastDone = mdNew /\ sLastDone \in Items)
  /\ [](startMode = "lastdone" /\ dlLog # <<>> => dlLog[1] = sLastDone)
  /\ [](startMode = "lastdone" /\ runLog # <<>> =>
          /\ runLog[1].dir = sLastDone
          /\ runLog[1].name \in itemDirs[sLastDone])
  /\ [](startMode = "lastdone" /\ runFlag /\ dlLog # <<>> /\ AfterDoRun =>
          runLog # <<>>)

C34_Witness ==
  /\ run = 2 /\ killedAt = "doRun" /\ startMode = "lastdone" /\ runFlag
  /\ sLastDone = 2 /\ dlLog = <<2>> /\ pc = "navLeft"
  /\ runLog = <<[dir |-> 2, name |-> FinalName]>>

\* navN has left its loop after an iteration, at the count or at the anchor
C35_ByCountOrAnchor ==
  /\ dlLog # <<>>
  /\ \/ nItemsFlag > 0 /\ n >= nItemsFlag
     \/ HasSuffixItem(location, firstItem)

\* C35: when navN ends because the count is reached or the boundary anchor
\* is matched, no navLeft follows the last download: the cursor is on the
\* last downloaded item, no key is under way, and .lastdone holds that
\* item's location.
C35_StaysOnLast ==
  /\ [](ReportsOK /\ C35_ByCountOrAnchor =>
          /\ pendingKey = "none"
          /\ cursor = dlLog[Len(dlLog)]
          /\ location = dlLog[Len(dlLog)]
          /\ lastdone = {dlLog[Len(dlLog)]})
  /\ [][(pc = "doRun" /\ pc' = "exit" /\ result' = "OK") =>
          /\ cursor' = cursor /\ lastdone' = lastdone
          /\ navWaiting' = navWaiting]_vars

\* C36: every goroutine the listener spawns for a navigation event ends:
\* when the run ends well none is left polling navWaiting or blocked on the
\* send to navDone.
C36_GoroutinesEnd == ReportsOK => (gPolling = 0 /\ gSending = 0)

\* C37: in the polling variant a run with -list leaves .lastdone as it
\* was when the run started (prevDone is the item it then held, 0 for no
\* file).
C37_ListKeepsSentinel ==
  listFlag => lastdone = (IF prevDone = 0 THEN {} ELSE {prevDone})

\* markDone is between its rename of .lastdone and its return
C38_InMarkDone == pc \in {"md_open", "md_write"}

\* C38 as stated: .lastdone.bak exists only while a markDone call is in
\* progress.
C38_BackupTransient == bak # {} => C38_InMarkDone

\* C38: .lastdone.bak holds the sentinel that markDone renamed; a markDone
\* that returns without error leaves it in the download directory, a
\* markDone that has restored the backup after a failed write leaves none
\* (the sentinel it had renamed is .lastdone again), and only markDone
\* touches it during a download.
C38_BackupKept ==
  /\ [](bak # {} => bak = {mdOld} /\ mdOld # EmptyStr)
  /\ [][(pc = "md_write" /\ pc' = dlAndMove_AfterDownload) =>
          /\ bak' = bak
          /\ (mdOld # EmptyStr => bak' = {mdOld})]_vars
  /\ [](result = "markDone: write failed" =>
          /\ bak = {}
          /\ (mdOld # EmptyStr => lastdone = {mdOld}))
  /\ [][bak' # bak => pc \in {"md_rename", "md_open", "md_write"}]_vars

C38_Witness ==
  /\ run = 2 /\ pc = "doRun" /\ mdOld = 1 /\ mdNew = 2
  /\ bak = {1} /\ lastdone = {2} /\ itemDirs[2] = {FinalName}

====
